---- MODULE Spec2Model ----
(***************************************************************************)
(* Run tracking and log streaming of the Agent MCP service                 *)
(* (PythonAspireSample/agent_mcp/main.py): the RUNS registry, record_log,  *)
(* and the /api/runs endpoints.  The service runs on one asyncio event     *)
(* loop, so a handler is atomic between two awaits; the only await that    *)
(* suspends is the queue.get() of the long-poll in get_run_logs.           *)
(*                                                                         *)
(* main.py declares RunState (status, end_ts, task) but holds no code that *)
(* registers a run, launches its task or sets its status; that part (the   *)
(* registry's create and the run execution supervisor) is modelled from    *)
(* sections 4.1, 4.3 and 5 of the specification.                           *)
(***************************************************************************)
EXTENDS Integers, Sequences, FiniteSets, TLC

\* ---------------------------------------------------------------- bounds
MaxNow == 1          \* the clock runs 0..MaxNow (seconds)
MaxEmit == 2         \* emit calls, all runs together
MaxCursor == 3       \* largest cursor a client passes
MaxItems == 2        \* largest max_items a client passes
MaxStrLen == 2       \* longest short string passed to emit
MaxParts == 3        \* longest list of parts passed to emit

SessionIds == {"s1", "s2"}   \* the ids create hands out, in this order
UnknownId == "s0"             \* an id create never hands out
Readers == {"r1", "r2"}
AgentIds == {"demo-plan"}

\* ------------------------------------------------------- program constants
MaxTextLen == 200    \* [:200] in format_log_content
\* RunConfig of the agent that is run; timeout_seconds counts ticks of the
\* model's clock.
RunConfig == [max_steps |-> 8, timeout_seconds |-> 1]

\* Optional[str] (end_ts): None, or the value; Optional[Task]: None, or the
\* state of the task.
None == <<>>
Some(x) == <<x>>
NoTask == "None"
NoSession == "None"
Terminal == {"done", "timeout", "stopped", "error"}
Statuses == {"running"} \cup Terminal

\* ------------------------------------------------------------------ state
VARIABLES
    RUNS,      \* session id -> RunState, for the registered runs
    now,       \* wall clock, second precision
    emitted,   \* history: per session id, the events record_log was called for
    readers,   \* per client: position in get_run_logs and cursor progression
    resp       \* the response of the handler that returned last

vars == <<RUNS, now, emitted, readers, resp>>

\* ------------------------------------------------------- pure calculations
Min(a, b) == IF a < b THEN a ELSE b

Last(s) == s[Len(s)]

\* Python's s[i:j] for 0 <= i, 0 <= j.
Slice(s, i, j) ==
    LET hi == Min(j, Len(s))
    IN  IF i >= hi THEN <<>> ELSE SubSeq(s, i + 1, hi)

\* Strings are sequences of one-character strings.
Str(s) == [kind |-> "str", val |-> s]
DictPart(has, t) == [kind |-> "dict", has_text |-> has, text |-> t]
List(ps) == [kind |-> "list", val |-> ps]

\* str(p.get("text", "")) if isinstance(p, dict) else str(p)
PartText(p) ==
    IF p.kind = "dict" THEN (IF p.has_text THEN p.text ELSE <<>>) ELSE p.val

RECURSIVE JoinParts(_)
\* " ".join(...)
JoinParts(ps) ==
    IF ps = <<>> THEN <<>>
    ELSE IF Len(ps) = 1 THEN PartText(ps[1])
    ELSE PartText(ps[1]) \o <<" ">> \o JoinParts(Tail(ps))

\* .replace("\n", " ")
ReplaceNewlines(s) == [i \in 1..Len(s) |-> IF s[i] = "\n" THEN " " ELSE s[i]]

\* format_log_content as a slip would have it: no [:200].
format_log_content_untruncated(content) ==
    LET c == IF content.kind = "list" THEN JoinParts(content.val) ELSE content.val
    IN  ReplaceNewlines(c)

format_log_content(content) ==
    LET c == IF content.kind = "list" THEN JoinParts(content.val) ELSE content.val
    IN  Slice(ReplaceNewlines(c), 0, MaxTextLen)

create_log_event(node, text) == [ts |-> now, node |-> node, text |-> text]

IsTerminal(status) == status \in Terminal

\* What the work passes to emit.
Contents ==
    { Str(<<"a", "\n">>), List(<<DictPart(TRUE, <<"a">>), DictPart(FALSE, <<>>)>>) }
Nodes == {"planner"}

\* RunState(session_id, agent_id): the dataclass defaults.
NewRunState(agent_id) ==
    [ agent_id |-> agent_id, status |-> "running", start_ts |-> now,
      end_ts |-> None, log |-> <<>>, queue |-> <<>>, task |-> NoTask ]

\* record_log as a slip would have it: the event is put on the queue only.
record_log_skips_log(rs, node, content) ==
    LET ev == create_log_event(node, format_log_content(content))
    IN  [rs EXCEPT !.queue = Append(@, ev)]

\* rs.log.append(ev); await rs.queue.put(ev) -- the queue is unbounded, so
\* put never suspends.
record_log(rs, node, content) ==
    LET ev == create_log_event(node, format_log_content(content))
    IN  [rs EXCEPT !.log = Append(@, ev), !.queue = Append(@, ev)]

\* ------------------------------------------------------------ responses
\* resp is the response of the step just taken; a step of the task or of the
\* clock returns nothing to a client.
NoResponse == [op |-> "none"]

NotFound(op, sid, detail) == [op |-> op, sid |-> sid, code |-> 404, detail |-> detail]

\* RunInfo(session_id=..., agent_id=..., status=..., start_ts=..., end_ts=..., log_len=...)
RunInfo(sid, rs) ==
    [ session_id |-> sid, agent_id |-> rs.agent_id, status |-> rs.status,
      start_ts |-> rs.start_ts, end_ts |-> rs.end_ts, log_len |-> Len(rs.log) ]

\* The response as a slip would have it: max_items is not applied.
RunLogsOut_ignores_max_items(rs, cursor, max_items) ==
    LET nxt == Len(rs.log)
    IN  [ lines |-> Slice(rs.log, cursor, nxt), next_cursor |-> nxt,
          done |-> IsTerminal(rs.status) ]

\* The response as a slip would have it: nxt is not clamped to the log.
RunLogsOut_unclamped(rs, cursor, max_items) ==
    LET nxt == cursor + max_items
    IN  [ lines |-> Slice(rs.log, cursor, nxt), next_cursor |-> nxt,
          done |-> IsTerminal(rs.status) ]

\* The response as a slip would have it: next_cursor is the end of the log,
\* whatever was returned.
RunLogsOut_next_is_end(rs, cursor, max_items) ==
    LET nxt == Min(Len(rs.log), cursor + max_items)
    IN  [ lines |-> Slice(rs.log, cursor, nxt), next_cursor |-> Len(rs.log),
          done |-> IsTerminal(rs.status) ]

\* nxt = min(len(rs.log), cursor + max_items)
\* RunLogsOut(lines=rs.log[cursor:nxt], next_cursor=nxt, done=rs.status in (...))
RunLogsOut(rs, cursor, max_items) ==
    LET nxt == Min(Len(rs.log), cursor + max_items)
    IN  [ lines |-> Slice(rs.log, cursor, nxt), next_cursor |-> nxt,
          done |-> IsTerminal(rs.status) ]

\* ----------------------------------------------------------------- clients
\* A client is idle or suspended in the queue.get() of a long-poll.  mode
\* "track" marks a client that started at cursor 0 and feeds every
\* next_cursor into its next call with one max_items; got concatenates the
\* lines it received and fin is the done flag of its last response.  A
\* client that repeats a request (modes "probe", "probed", "again",
\* "repeated") keeps in got, nxt and fin the response to the request it
\* repeats, and in em0 the number of events emitted when that one returned.
IdleReader ==
    [ pc |-> "idle", mode |-> "new", sid |-> NoSession, cursor |-> 0, max_items |-> 1,
      wait_ms |-> 0, got |-> <<>>, nxt |-> 0, fin |-> FALSE, em0 |-> 0 ]

WaitChoices == {0, 100}

\* The request a client sends: "first" opens a progression at cursor 0,
\* "next" continues it with the returned next_cursor, "free" is any other
\* request; "probe" is a request that will be repeated and "again" repeats
\* it.  em0 counts the events emitted when the request arrives.
Request(rd, kind, sid, cursor, max_items, wait_ms) ==
    IF kind = "again" THEN [rd EXCEPT !.mode = "again"]
    ELSE
    [ pc |-> "idle",
      mode |-> IF kind \in {"free", "probe"} THEN kind ELSE "track",
      sid |-> sid, cursor |-> cursor, max_items |-> max_items, wait_ms |-> wait_ms,
      got |-> IF kind = "next" THEN rd.got ELSE <<>>, nxt |-> 0, fin |-> FALSE,
      em0 |-> Len(emitted[sid]) ]

Allowed(rd, kind, sid, cursor, max_items) ==
    CASE kind = "first" -> cursor = 0
      [] kind = "next"  -> /\ rd.mode = "track" /\ ~rd.fin
                           /\ sid = rd.sid /\ cursor = rd.cursor
                           /\ max_items = rd.max_items
      [] kind = "free"  -> TRUE
      [] kind = "probe" -> TRUE
      [] kind = "again" -> /\ rd.mode \in {"probed", "repeated"}
                           /\ sid = rd.sid /\ cursor = rd.cursor
                           /\ max_items = rd.max_items

\* The bookkeeping of a client on a response out.
Received(rd, out) ==
    IF rd.mode = "track"
    THEN [rd EXCEPT !.pc = "idle", !.got = @ \o out.lines,
                    !.cursor = out.next_cursor, !.fin = out.done,
                    !.wait_ms = 0, !.em0 = 0]
    ELSE IF rd.mode \in {"probe", "again"}
    THEN [rd EXCEPT !.pc = "idle",
                    !.mode = IF rd.mode = "probe" THEN "probed" ELSE "repeated",
                    !.got = out.lines, !.nxt = out.next_cursor, !.fin = out.done,
                    !.em0 = Len(emitted[rd.sid])]
    ELSE IdleReader

LogsResponse(r, rd, out, path) ==
    [ op |-> "logs", who |-> r, sid |-> rd.sid, code |-> 200,
      cursor |-> rd.cursor, max_items |-> rd.max_items, path |-> path, lines |-> out.lines, next_cursor |-> out.next_cursor,
      done |-> out.done ]

TypeOK ==
    /\ DOMAIN RUNS \subseteq SessionIds
    /\ now \in 0..MaxNow
    /\ \A s \in DOMAIN RUNS :
          /\ RUNS[s].status \in Statuses
          /\ RUNS[s].task \in {NoTask, "pending", "cancel_requested", "done"}
          /\ RUNS[s].end_ts \in {None} \cup {Some(t) : t \in 0..MaxNow}

Init ==
    /\ RUNS = [s \in {} |-> NewRunState("")]
    /\ now = 0
    /\ emitted = [s \in SessionIds |-> <<>>]
    /\ readers = [r \in Readers |-> IdleReader]
    /\ resp = NoResponse

\* The clock advances.
Tick ==
    /\ now < MaxNow
    /\ now' = now + 1
    /\ resp' = NoResponse
    /\ UNCHANGED <<RUNS, emitted, readers>>

\* ------------------------------------------- registry and supervisor
\* create(agent_id): a record with status running, start_ts = now, empty log
\* and channel, registered under a fresh session id; no task is bound yet.
create(session_id, agent_id) ==
    /\ session_id \notin DOMAIN RUNS
    /\ (session_id = "s2" => "s1" \in DOMAIN RUNS)
    /\ RUNS' = (session_id :> NewRunState(agent_id)) @@ RUNS
    /\ resp' = [op |-> "create", sid |-> session_id, code |-> 200]
    /\ UNCHANGED <<now, emitted, readers>>

\* start: the work is launched as a cancellable task bound to the record.
start(session_id) ==
    /\ session_id \in DOMAIN RUNS
    /\ RUNS[session_id].task = NoTask
    /\ RUNS' = [RUNS EXCEPT ![session_id].task = "pending"]
    /\ resp' = [op |-> "start", sid |-> session_id, code |-> 200]
    /\ UNCHANGED <<now, emitted, readers>>

\* The emit calls made so far.
RECURSIVE SumLen(_, _)
SumLen(f, S) ==
    IF S = {} THEN 0
    ELSE LET x == CHOOSE y \in S : TRUE IN Len(f[x]) + SumLen(f, S \ {x})
Emits == SumLen(emitted, SessionIds)

TaskAlive(rs) == rs.status = "running" /\ rs.task \in {"pending", "cancel_requested"}

\* The task calls emit(node, content): record_log on its record.
emit(session_id, node, content) ==
    /\ session_id \in DOMAIN RUNS
    /\ TaskAlive(RUNS[session_id])
    /\ Emits < MaxEmit
    /\ RUNS' = [RUNS EXCEPT ![session_id] = record_log(@, node, content)]
    /\ emitted' = [emitted EXCEPT ![session_id] =
                      Append(@, create_log_event(node, format_log_content(content)))]
    /\ resp' = NoResponse
    /\ UNCHANGED <<now, readers>>

\* A task that still executes after its record became terminal (one that
\* caught its cancellation, or work handed to a thread) calls emit: emit is
\* record_log, which does not look at rs.status.
late_emit(session_id, node, content) ==
    /\ session_id \in DOMAIN RUNS
    /\ RUNS[session_id].status # "running"
    /\ RUNS[session_id].task = "done"
    /\ Emits < MaxEmit
    /\ RUNS' = [RUNS EXCEPT ![session_id] = record_log(@, node, content)]
    /\ emitted' = [emitted EXCEPT ![session_id] =
                      Append(@, create_log_event(node, format_log_content(content)))]
    /\ resp' = NoResponse
    /\ UNCHANGED <<now, readers>>

\* The one terminal transition of a record.
Finish(rs, status) == [rs EXCEPT !.status = status, !.end_ts = Some(now), !.task = "done"]

\* Normal completion of the work.
complete(session_id) ==
    /\ session_id \in DOMAIN RUNS
    /\ RUNS[session_id].status = "running"
    /\ RUNS[session_id].task = "pending"
    /\ RUNS' = [RUNS EXCEPT ![session_id] = Finish(@, "done")]
    /\ resp' = NoResponse
    /\ UNCHANGED <<now, emitted, readers>>

\* The deadline passes before the work completes: the task is cancelled.
timeout(session_id) ==
    /\ session_id \in DOMAIN RUNS
    /\ RUNS[session_id].status = "running"
    /\ RUNS[session_id].task = "pending"
    /\ now >= RUNS[session_id].start_ts + RunConfig.timeout_seconds
    /\ RUNS' = [RUNS EXCEPT ![session_id] = Finish(@, "timeout")]
    /\ resp' = NoResponse
    /\ UNCHANGED <<now, emitted, readers>>

FaultMessage == Str(<<"f">>)

\* The work raises: its message is the last event, node "system".
fault(session_id) ==
    /\ session_id \in DOMAIN RUNS
    /\ RUNS[session_id].status = "running"
    /\ RUNS[session_id].task = "pending"
    /\ Emits < MaxEmit
    /\ RUNS' = [RUNS EXCEPT ![session_id] =
                    Finish(record_log(@, "system", FaultMessage), "error")]
    /\ emitted' = [emitted EXCEPT ![session_id] =
                      Append(@, create_log_event("system", format_log_content(FaultMessage)))]
    /\ resp' = NoResponse
    /\ UNCHANGED <<now, readers>>

\* The cancellation requested by stop reaches the task.
cancelled(session_id) ==
    /\ session_id \in DOMAIN RUNS
    /\ RUNS[session_id].status = "running"
    /\ RUNS[session_id].task = "cancel_requested"
    /\ RUNS' = [RUNS EXCEPT ![session_id] = Finish(@, "stopped")]
    /\ resp' = NoResponse
    /\ UNCHANGED <<now, emitted, readers>>

\* ------------------------------------------------------------ endpoints
\* cancel as a slip would have it: the request is dropped.
cancel_dropped(task) == task

\* asyncio.Task.cancel(): a request on a task that is not done, nothing on
\* one that is.
cancel(task) == IF task = "pending" THEN "cancel_requested" ELSE task

\* stop_run as a slip would have it: the handler writes the status itself.
stop_run_writes_status(session_id) ==
    IF session_id \notin DOMAIN RUNS \/ RUNS[session_id].task = NoTask
    THEN /\ resp' = NotFound("stop", session_id, "Run not found or not active")
         /\ UNCHANGED <<RUNS, now, emitted, readers>>
    ELSE /\ RUNS' = [RUNS EXCEPT ![session_id].task = cancel(@),
                                 ![session_id].status = "stopped"]
         /\ resp' = [op |-> "stop", sid |-> session_id, code |-> 200, ok |-> TRUE]
         /\ UNCHANGED <<now, emitted, readers>>

\* stop_run as a slip would have it: a finished task counts as not active.
stop_run_rejects_finished(session_id) ==
    IF \/ session_id \notin DOMAIN RUNS
       \/ RUNS[session_id].task \in {NoTask, "done"}
    THEN /\ resp' = NotFound("stop", session_id, "Run not found or not active")
         /\ UNCHANGED <<RUNS, now, emitted, readers>>
    ELSE /\ RUNS' = [RUNS EXCEPT ![session_id].task = cancel(@)]
         /\ resp' = [op |-> "stop", sid |-> session_id, code |-> 200, ok |-> TRUE]
         /\ UNCHANGED <<now, emitted, readers>>

\* stop_run as a slip would have it: rs.task is not looked at.
stop_run_skips_task_check(session_id) ==
    IF session_id \notin DOMAIN RUNS
    THEN /\ resp' = NotFound("stop", session_id, "Run not found or not active")
         /\ UNCHANGED <<RUNS, now, emitted, readers>>
    ELSE /\ RUNS' = [RUNS EXCEPT ![session_id].task = cancel(@)]
         /\ resp' = [op |-> "stop", sid |-> session_id, code |-> 200, ok |-> TRUE]
         /\ UNCHANGED <<now, emitted, readers>>

\* POST /api/runs/{session_id}/stop
stop_run(session_id) ==
    IF session_id \notin DOMAIN RUNS \/ RUNS[session_id].task = NoTask
    THEN /\ resp' = NotFound("stop", session_id, "Run not found or not active")
         /\ UNCHANGED <<RUNS, now, emitted, readers>>
    ELSE /\ RUNS' = [RUNS EXCEPT ![session_id].task = cancel(@)]
         /\ resp' = [op |-> "stop", sid |-> session_id, code |-> 200, ok |-> TRUE]
         /\ UNCHANGED <<now, emitted, readers>>

\* GET /api/runs.  RUNS_LOCK is held by no handler across an await, so the
\* snapshot is one step.
list_runs ==
    /\ resp' = [op |-> "list", code |-> 200,
                body |-> [s \in DOMAIN RUNS |-> RunInfo(s, RUNS[s])]]
    /\ UNCHANGED <<RUNS, now, emitted, readers>>

\* GET /api/runs/{session_id}
get_run_status(session_id) ==
    /\ resp' = IF session_id \notin DOMAIN RUNS
               THEN NotFound("status", session_id, "Run not found")
               ELSE [op |-> "status", sid |-> session_id, code |-> 200,
                     body |-> RunInfo(session_id, RUNS[session_id])]
    /\ UNCHANGED <<RUNS, now, emitted, readers>>

\* The de-duplication as a slip would have it: the event is always appended.
append_always(log, ev) == Append(log, ev)

\* if not rs.log or rs.log[-1] != ev: rs.log.append(ev)
append_if_new(log, ev) ==
    IF log = <<>> \/ Last(log) # ev THEN Append(log, ev) ELSE log

\* get_run_logs as a slip would have it: the wait does not look at the
\* status.
get_run_logs_waits_on_terminal(r, kind, session_id, cursor, max_items, wait_ms) ==
    /\ readers[r].pc = "idle"
    /\ Allowed(readers[r], kind, session_id, cursor, max_items)
    /\ IF session_id \notin DOMAIN RUNS
       THEN /\ resp' = NotFound("logs", session_id, "Run not found")
            /\ UNCHANGED readers
       ELSE LET rs == RUNS[session_id]
                rd == Request(readers[r], kind, session_id, cursor, max_items, wait_ms)
                out == RunLogsOut(rs, cursor, max_items)
            IN  IF cursor < Len(rs.log)
                THEN /\ resp' = LogsResponse(r, rd, out, "fast")
                     /\ readers' = [readers EXCEPT ![r] = Received(rd, out)]
                ELSE IF wait_ms > 0
                THEN /\ readers' = [readers EXCEPT ![r] = [rd EXCEPT !.pc = "waiting"]]
                     /\ resp' = NoResponse
                ELSE /\ resp' = LogsResponse(r, rd, out, "nowait")
                     /\ readers' = [readers EXCEPT ![r] = Received(rd, out)]
    /\ UNCHANGED <<RUNS, now, emitted>>

\* GET /api/runs/{session_id}/logs, up to its return or to the await of
\* queue.get().
get_run_logs(r, kind, session_id, cursor, max_items, wait_ms) ==
    /\ readers[r].pc = "idle"
    /\ Allowed(readers[r], kind, session_id, cursor, max_items)
    /\ IF session_id \notin DOMAIN RUNS
       THEN /\ resp' = NotFound("logs", session_id, "Run not found")
            /\ UNCHANGED readers
       ELSE LET rs == RUNS[session_id]
                rd == Request(readers[r], kind, session_id, cursor, max_items, wait_ms)
                out == RunLogsOut(rs, cursor, max_items)
            IN  IF cursor < Len(rs.log)
                THEN \* fast path
                     /\ resp' = LogsResponse(r, rd, out, "fast")
                     /\ readers' = [readers EXCEPT ![r] = Received(rd, out)]
                ELSE IF wait_ms > 0 /\ rs.status = "running"
                THEN \* optional wait
                     /\ readers' = [readers EXCEPT ![r] = [rd EXCEPT !.pc = "waiting"]]
                     /\ resp' = NoResponse
                ELSE /\ resp' = LogsResponse(r, rd, out, "nowait")
                     /\ readers' = [readers EXCEPT ![r] = Received(rd, out)]
    /\ UNCHANGED <<RUNS, now, emitted>>

\* queue.get() hands the waiting request an event.  (asyncio wakes the
\* oldest getter first; here any waiting request may be the one served.)
get_run_logs_event(r) ==
    /\ readers[r].pc = "waiting"
    /\ RUNS[readers[r].sid].queue # <<>>
    /\ LET rd == readers[r]
           rs == RUNS[rd.sid]
           ev == Head(rs.queue)
           rs1 == [rs EXCEPT !.queue = Tail(@), !.log = append_if_new(@, ev)]
           out == RunLogsOut(rs1, rd.cursor, rd.max_items)
       IN  /\ RUNS' = [RUNS EXCEPT ![rd.sid] = rs1]
           /\ resp' = LogsResponse(r, rd, out, "event")
           /\ readers' = [readers EXCEPT ![r] = Received(rd, out)]
    /\ UNCHANGED <<now, emitted>>

\* wait_for raises asyncio.TimeoutError in the waiting request.  Time is not
\* measured: the timeout may fire whenever the request waits and the queue
\* is empty (queue.get() on a queue that holds an event completes, and
\* wait_for returns the result of a completed get).
get_run_logs_timeout(r) ==
    /\ readers[r].pc = "waiting"
    /\ RUNS[readers[r].sid].queue = <<>>
    /\ LET rd == readers[r]
           out == RunLogsOut(RUNS[rd.sid], rd.cursor, rd.max_items)
       IN  /\ resp' = LogsResponse(r, rd, out, "timeout")
           /\ readers' = [readers EXCEPT ![r] = Received(rd, out)]
    /\ UNCHANGED <<RUNS, now, emitted>>

\* --------------------------------------------------------- specifications
Task(s) ==
    \/ \E n \in Nodes, c \in Contents : emit(s, n, c)
    \/ complete(s)
    \/ timeout(s)
    \/ fault(s)
    \/ cancelled(s)

\* One run, one client, every request.
Next ==
    \/ Tick
    \/ \E a \in AgentIds : create("s1", a)
    \/ start("s1")
    \/ Task("s1")
    \/ \E s \in {"s1", UnknownId} : stop_run(s)
    \/ list_runs
    \/ \E s \in {"s1", UnknownId} : get_run_status(s)
    \/ \E m \in 1..MaxItems, w \in WaitChoices :
          get_run_logs("r1", "first", "s1", 0, m, w)
    \/ \E w \in WaitChoices :
          get_run_logs("r1", "next", readers["r1"].sid, readers["r1"].cursor,
                       readers["r1"].max_items, w)
    \/ \E c \in 0..MaxCursor, m \in 1..MaxItems, w \in WaitChoices :
          get_run_logs("r1", "free", "s1", c, m, w)
    \/ \E w \in WaitChoices : get_run_logs("r1", "free", UnknownId, 0, 1, w)
    \/ get_run_logs_event("r1")
    \/ get_run_logs_timeout("r1")

Spec == Init /\ [][Next]_vars

\* Two runs, the supervisor and the endpoints that do not read the log.
TwoNext ==
    \/ Tick
    \/ \E s \in SessionIds, a \in AgentIds : create(s, a)
    \/ \E s \in SessionIds : start(s)
    \/ \E s \in SessionIds : Task(s)
    \/ \E s \in SessionIds \cup {UnknownId} : stop_run(s)
    \/ list_runs
    \/ \E s \in SessionIds \cup {UnknownId} : get_run_status(s)

TwoSpec == Init /\ [][TwoNext]_vars

\* The event loop runs a task whose cancellation was requested: the
\* CancelledError is thrown into it at its next step.
FairSpec == TwoSpec /\ \A s \in SessionIds : WF_vars(cancelled(s))

\* One run and two clients that each follow their cursor from 0.
ConcNext ==
    \/ \E a \in AgentIds : create("s1", a)
    \/ start("s1")
    \/ \E n \in Nodes, c \in Contents : emit("s1", n, c)
    \/ complete("s1")
    \/ \E r \in Readers, m \in 1..MaxItems, w \in WaitChoices :
          get_run_logs(r, "first", "s1", 0, m, w)
    \/ \E r \in Readers, w \in WaitChoices :
          get_run_logs(r, "next", readers[r].sid, readers[r].cursor,
                       readers[r].max_items, w)
    \/ \E r \in Readers : get_run_logs_event(r)
    \/ \E r \in Readers : get_run_logs_timeout(r)

ConcSpec == Init /\ [][ConcNext]_vars

\* Runs whose work never completes and that no client stops while they
\* run: the work emits, the clock advances, and clients ask for the status
\* and stop records that are terminal.
HangNext ==
    \/ Tick
    \/ \E s \in SessionIds, a \in AgentIds : create(s, a)
    \/ \E s \in SessionIds : start(s)
    \/ \E s \in SessionIds, n \in Nodes, c \in Contents : emit(s, n, c)
    \/ \E s \in SessionIds : timeout(s)
    \/ \E s \in SessionIds :
          s \in DOMAIN RUNS /\ RUNS[s].status # "running" /\ stop_run(s)
    \/ \E s \in SessionIds : get_run_status(s)

HangSpec == Init /\ [][HangNext]_vars

\* Time passes, and the supervisor's deadline wait returns when the deadline
\* has passed.
HangFairSpec ==
    HangSpec /\ WF_vars(Tick) /\ \A s \in SessionIds : WF_vars(timeout(s))

\* One run whose task may go on calling emit after the record is terminal,
\* and one client that follows its cursor.
LateNext ==
    \/ Tick
    \/ \E a \in AgentIds : create("s1", a)
    \/ start("s1")
    \/ Task("s1")
    \/ \E n \in Nodes, c \in Contents : late_emit("s1", n, c)
    \/ stop_run("s1")
    \/ \E m \in 1..MaxItems, w \in WaitChoices :
          get_run_logs("r1", "first", "s1", 0, m, w)
    \/ \E w \in WaitChoices :
          get_run_logs("r1", "next", readers["r1"].sid, readers["r1"].cursor,
                       readers["r1"].max_items, w)
    \/ get_run_logs_event("r1")
    \/ get_run_logs_timeout("r1")

LateSpec == Init /\ [][LateNext]_vars

\* The contents format_log_content is applied to: short strings, strings
\* around the 200-character limit, and lists of parts (dicts with and
\* without a "text" entry, and parts that are not dicts).
Pattern(n) == [i \in 1..n |-> <<"a", "b", "c">>[(i % 3) + 1]]

ShortStrings ==
    UNION { [1..n -> {"a", "b", "\n"}] : n \in 0..MaxStrLen }

LongStrings ==
    UNION { { Pattern(n), [Pattern(n) EXCEPT ![2] = "\n"],
              [Pattern(n) EXCEPT ![n] = "\n"] } :
            n \in (MaxTextLen - 1)..(MaxTextLen + 2) }

Parts ==
    { DictPart(TRUE, <<"a">>), DictPart(TRUE, <<"b", "\n">>), DictPart(FALSE, <<>>),
      Str(<<"c">>), DictPart(TRUE, Pattern(MaxTextLen \div 2)) }

FormatContents ==
    {Str(v) : v \in ShortStrings \cup LongStrings}
    \cup {List(ps) : ps \in UNION { [1..n -> Parts] : n \in 0..MaxParts }}

\* A started run, and the content its work is about to pass to emit.
FormatInit ==
    /\ now = 0
    /\ \E a \in AgentIds :
          RUNS = [s \in {"s1"} |-> [NewRunState(a) EXCEPT !.task = "pending"]]
    /\ emitted = [s \in SessionIds |-> <<>>]
    /\ readers = [r \in Readers |-> IdleReader]
    /\ resp \in {[op |-> "content", content |-> c] : c \in FormatContents}

\* emit(node, content) with the content chosen: record_log on the record.
emit_content(session_id, node) ==
    /\ resp.op = "content"
    /\ TaskAlive(RUNS[session_id])
    /\ RUNS' = [RUNS EXCEPT ![session_id] = record_log(@, node, resp.content)]
    /\ emitted' = [emitted EXCEPT ![session_id] =
                      Append(@, create_log_event(node, format_log_content(resp.content)))]
    /\ resp' = [op |-> "emitted", content |-> resp.content]
    /\ UNCHANGED <<now, readers>>

FormatNext ==
    \/ \E n \in Nodes : emit_content("s1", n)
    \/ \E m \in 1..MaxItems : get_run_logs("r1", "first", "s1", 0, m, 0)

FormatSpec == FormatInit /\ [][FormatNext]_vars

\* One run and one client that sends a request and then repeats it with
\* the same cursor, max_items and wait_ms.
RepeatNext ==
    \/ Tick
    \/ \E a \in AgentIds : create("s1", a)
    \/ start("s1")
    \/ \E n \in Nodes, c \in Contents : emit("s1", n, c)
    \/ complete("s1")
    \/ \E c \in 0..MaxCursor, m \in 1..MaxItems, w \in WaitChoices :
          get_run_logs("r1", "probe", "s1", c, m, w)
    \/ get_run_logs("r1", "again", readers["r1"].sid, readers["r1"].cursor,
                    readers["r1"].max_items, readers["r1"].wait_ms)
    \/ get_run_logs_event("r1")
    \/ get_run_logs_timeout("r1")

RepeatSpec == Init /\ [][RepeatNext]_vars

\* ------------------------------------------------------------------ claims
Registered == DOMAIN RUNS

\* A client that follows its cursor and has its last response in hand.
Following(r) == readers[r].mode = "track" /\ readers[r].pc = "idle"

\* C1: in every reachable state the log of every record is exactly the
\* sequence of the events emitted for it so far, in emit order.
C1_LogIsWhatWasEmitted ==
    \A s \in Registered : RUNS[s].log = emitted[s]

\* C2: a client that starts at cursor 0 and feeds every next_cursor into its
\* next call has, once a response says done, received exactly the events
\* the run emitted.  (Stated for a record whose log holds every emitted
\* event once, so that a repeated event of C1 is not what fails it.)
C2_ReadToDoneYieldsAll ==
    \A r \in Readers :
        (/\ Following(r)
         /\ readers[r].fin
         /\ RUNS[readers[r].sid].log = emitted[readers[r].sid])
        => readers[r].got = emitted[readers[r].sid]

Stopped(s) == resp.op = "stop" /\ resp.code = 200 /\ resp.sid = s

\* C4: a stop on a registered record that is running and has a task requests
\* the cancellation of the task, and the record's status becomes stopped.
C4_StopLeadsToStopped ==
    /\ [](\A s \in SessionIds :
            (Stopped(s) /\ RUNS[s].status = "running")
            => RUNS[s].task = "cancel_requested")
    /\ \A s \in SessionIds :
            (Stopped(s) /\ RUNS[s].status = "running")
            ~> (s \in Registered /\ RUNS[s].status = "stopped")

\* A record has reached stopped, which only a stop on a running record
\* brings about.
C4_RunStopped ==
    \E s \in Registered : RUNS[s].status = "stopped" /\ RUNS[s].task = "done"

\* C5: for every record, end_ts is set exactly when the status is not running.
C5_EndTsIffNotRunning ==
    \A s \in Registered : (RUNS[s].end_ts # None) <=> (RUNS[s].status # "running")

\* A stop was requested on a record that then became terminal with end_ts
\* set, while the clock had moved on from its start.
C5_StoppedWithEndTs ==
    \E s \in Registered :
        /\ RUNS[s].status = "stopped"
        /\ RUNS[s].end_ts # None
        /\ RUNS[s].end_ts # Some(RUNS[s].start_ts)

\* C6: a stop on a registered record whose status is terminal returns
\* success and changes neither that record (status, end_ts, log) nor any
\* other, every time it is called.
C6_StopOnTerminalIsNoOp ==
    [][ \A s \in Registered :
            (/\ IsTerminal(RUNS[s].status)
             /\ resp'.op = "stop" /\ resp'.sid = s)
            => /\ resp'.code = 200
               /\ RUNS'[s].status = RUNS[s].status
               /\ RUNS'[s].end_ts = RUNS[s].end_ts
               /\ RUNS'[s].log = RUNS[s].log
               /\ RUNS' = RUNS ]_vars

\* A stop has just returned on a terminal record that holds events, next to
\* a second record that is still running.
C6_StoppedTerminalRecord ==
    /\ resp.op = "stop"
    /\ resp.sid \in Registered
    /\ IsTerminal(RUNS[resp.sid].status)
    /\ RUNS[resp.sid].log # <<>>
    /\ \E o \in Registered \ {resp.sid} : RUNS[o].status = "running"

\* C7: a stop on an id that is not registered, or on a record without a
\* task, returns 404 and leaves the registry and every record as they were.
C7_StopNotFound ==
    [][ (/\ resp'.op = "stop"
         /\ \/ resp'.sid \notin Registered
            \/ RUNS[resp'.sid].task = NoTask)
        => /\ resp'.code = 404
           /\ RUNS' = RUNS ]_vars

\* A stop has just returned on a registered record that has no task, while
\* another record has a live task.
C7_StopOnRecordWithoutTask ==
    /\ resp.op = "stop"
    /\ resp.sid \in Registered
    /\ RUNS[resp.sid].task = NoTask
    /\ \E o \in Registered \ {resp.sid} : RUNS[o].task = "pending"

\* C8: no status, list or logs request changes the status, the end_ts or the
\* log of a record.
C8_QueriesAreReadOnly ==
    [][ resp'.op \in {"status", "list", "logs"}
        => \A s \in Registered :
              /\ s \in DOMAIN RUNS'
              /\ RUNS'[s].status = RUNS[s].status
              /\ RUNS'[s].end_ts = RUNS[s].end_ts
              /\ RUNS'[s].log = RUNS[s].log ]_vars

\* C9: when the run has emitted one event, a client that follows its cursor
\* from 0 holds nothing or that event once, and holds it once a response
\* has reached it after the event was emitted.
C9_OneEventOnceToEachReader ==
    \A r \in Readers :
        (Following(r) /\ Len(emitted[readers[r].sid]) = 1)
        => /\ readers[r].got \in {<<>>, emitted[readers[r].sid]}
           /\ readers[r].cursor = Len(readers[r].got)
           /\ (resp.op = "logs" /\ resp.code = 200 /\ resp.who = r)
              => readers[r].got = emitted[readers[r].sid]

\* Both clients asked with cursor 0 and wait_ms > 0 before the event was
\* emitted; one has just been handed the event, the other still waits.
C9_TwoReadersOneEvent ==
    /\ Len(emitted["s1"]) = 1
    /\ resp.op = "logs" /\ resp.path = "event" /\ resp.cursor = 0
    /\ resp.lines = emitted["s1"]
    /\ readers[resp.who].got = emitted["s1"]
    /\ \E o \in Readers \ {resp.who} :
          /\ readers[o].pc = "waiting" /\ readers[o].mode = "track"
          /\ readers[o].cursor = 0 /\ readers[o].em0 = 0

\* C10: a long-poll with cursor = len(log) on a record that stays running and
\* emits nothing while the request waits returns no lines and done = false.
C10_QuietLongPollIsEmpty ==
    [][ \A r \in Readers :
          (/\ readers[r].pc = "waiting"
           /\ readers'[r].pc = "idle"
           /\ readers[r].cursor = Len(RUNS[readers[r].sid].log)
           /\ readers[r].em0 = Len(emitted[readers[r].sid])
           /\ RUNS'[readers[r].sid].status = "running")
          => /\ resp'.op = "logs" /\ resp'.code = 200
             /\ resp'.lines = <<>>
             /\ resp'.done = FALSE ]_vars

\* C11: a logs request with 0 <= cursor < len(log) and max_items >= 1 returns
\* at once, without waiting and without touching the record or its channel;
\* its lines are the min(max_items, len(log) - cursor) consecutive events
\* from index cursor, next_cursor is cursor plus the number of lines, and
\* done is true exactly when the status is terminal.
C11_FastPath ==
    [][ \A r \in Readers :
          (/\ readers[r].pc = "idle"
           /\ \/ readers'[r].pc = "waiting"
              \/ resp'.op = "logs" /\ resp'.code = 200 /\ resp'.who = r)
          => LET sid == IF readers'[r].pc = "waiting" THEN readers'[r].sid ELSE resp'.sid
                 cursor == IF readers'[r].pc = "waiting"
                           THEN readers'[r].cursor ELSE resp'.cursor
                 log == RUNS[sid].log
             IN  cursor < Len(log)
                 => /\ readers'[r].pc = "idle"
                    /\ resp'.op = "logs" /\ resp'.path = "fast"
                    /\ RUNS' = RUNS
                    /\ Len(resp'.lines) = Min(resp'.max_items, Len(log) - cursor)
                    /\ \A i \in 1..Len(resp'.lines) : resp'.lines[i] = log[cursor + i]
                    /\ resp'.next_cursor = cursor + Len(resp'.lines)
                    /\ resp'.done = IsTerminal(RUNS[sid].status) ]_vars

\* A fast-path response that max_items cut short: one of two events.
C11_FastPathCutByMaxItems ==
    /\ resp.op = "logs" /\ resp.code = 200 /\ resp.path = "fast"
    /\ resp.cursor = 0 /\ resp.max_items = 1
    /\ Len(RUNS[resp.sid].log) = 2
    /\ resp.lines = <<RUNS[resp.sid].log[1]>>

\* C12: a logs request repeated with the same cursor, max_items and wait_ms,
\* with no emit since the first one returned, returns the same lines and
\* the same next_cursor as the first, leaves the log and the channel as they
\* were, and its done flag differs from the first only by going from false
\* to true.
C12_RepeatedLogsIdempotent ==
    [][ \A r \in Readers :
          (/\ readers[r].mode \in {"probed", "repeated", "again"}
           /\ readers'[r].mode = "repeated" /\ readers'[r].pc = "idle"
           /\ resp'.op = "logs" /\ resp'.code = 200 /\ resp'.who = r
           /\ Len(emitted'[readers[r].sid]) = readers[r].em0)
          => /\ resp'.lines = readers[r].got
             /\ resp'.next_cursor = readers[r].nxt
             /\ readers[r].fin => resp'.done
             /\ RUNS'[readers[r].sid].log = RUNS[readers[r].sid].log
             /\ RUNS'[readers[r].sid].queue = RUNS[readers[r].sid].queue ]_vars

\* C13: once the status of a record is not running, no emit call changes its
\* log: a late event is dropped, so the log seen with done = true is final.
C13_LateEmitDropped ==
    [][ \A s \in Registered :
          (RUNS[s].status # "running" /\ emitted'[s] # emitted[s])
          => RUNS'[s].log = RUNS[s].log ]_vars

\* The deadline of the record s lies within the time the clock covers.
DeadlineInReach(s) == RUNS[s].start_ts + RunConfig.timeout_seconds <= MaxNow

\* C14: a run whose work never completes does not stay running: once
\* timeout_seconds have elapsed (and not before) its task is cancelled and
\* the record reaches status timeout with end_ts set, and a stop issued
\* afterwards returns success without changing the record.
C14_HungRunTimesOut ==
    /\ \A s \in SessionIds :
          (s \in Registered /\ RUNS[s].task = "pending" /\ DeadlineInReach(s))
          ~> (/\ s \in Registered
              /\ RUNS[s].status = "timeout"
              /\ RUNS[s].end_ts # None
              /\ RUNS[s].task = "done")
    /\ [][ \A s \in Registered :
              (RUNS[s].status = "running" /\ RUNS'[s].status # "running")
              => /\ RUNS'[s].status = "timeout"
                 /\ now >= RUNS[s].start_ts + RunConfig.timeout_seconds ]_vars
    /\ [][ \A s \in Registered :
              (RUNS[s].status = "timeout" /\ resp'.op = "stop" /\ resp'.sid = s)
              => resp'.code = 200 /\ RUNS' = RUNS ]_vars

\* A stop has just returned success on a record that timed out a second
\* after its start.
C14_StopAfterTimeout ==
    /\ resp.op = "stop" /\ resp.code = 200
    /\ RUNS[resp.sid].status = "timeout"
    /\ RUNS[resp.sid].end_ts = Some(RUNS[resp.sid].start_ts + RunConfig.timeout_seconds)

\* C15: for every logs response (fast path, wait path, any cursor, also a
\* cursor beyond the log) next_cursor is at most the length of the log at
\* the time of the response.
C15_NextCursorWithinLog ==
    (resp.op = "logs" /\ resp.code = 200)
    => resp.next_cursor <= Len(RUNS[resp.sid].log)

\* A long-poll with a cursor beyond the log was handed an event and returned
\* the length of the log as next_cursor.
C15_CursorBeyondLog ==
    /\ resp.op = "logs" /\ resp.code = 200 /\ resp.path = "event"
    /\ resp.cursor > Len(RUNS[resp.sid].log)
    /\ resp.next_cursor = Len(RUNS[resp.sid].log)
    /\ RUNS[resp.sid].log # <<>>

\* C16: a logs request waits on the channel, and so can remove an event from
\* it, only when its cursor is at or beyond the end of the log, the status
\* is running and wait_ms > 0; every other request returns at once and
\* leaves the channel as it was, and only a request that waits removes an
\* event.
C16_ChannelTouchedOnlyByWait ==
    [][ \A r \in Readers :
          /\ (readers[r].pc = "idle" /\ readers'[r].pc = "waiting")
             => /\ readers'[r].cursor >= Len(RUNS[readers'[r].sid].log)
                /\ RUNS[readers'[r].sid].status = "running"
                /\ readers'[r].wait_ms > 0
                /\ RUNS' = RUNS
          /\ (/\ readers[r].pc = "idle"
              /\ resp'.op = "logs" /\ resp'.code = 200 /\ resp'.who = r)
             => /\ readers'[r].pc = "idle"
                /\ resp'.path \in {"fast", "nowait"}
                /\ RUNS' = RUNS
          /\ (/\ resp'.op = "logs" /\ resp'.code = 200 /\ resp'.who = r
              /\ RUNS'[resp'.sid].queue # RUNS[resp'.sid].queue)
             => /\ readers[r].pc = "waiting" /\ readers[r].wait_ms > 0
                /\ resp'.path = "event"
                /\ RUNS'[resp'.sid].queue = Tail(RUNS[resp'.sid].queue) ]_vars

\* A request that waited at the end of the log of a running record has just
\* taken an event from the channel.
C16_WaitTookEvent ==
    /\ resp.op = "logs" /\ resp.code = 200 /\ resp.path = "event"
    /\ resp.cursor = Len(RUNS[resp.sid].log)
    /\ RUNS[resp.sid].status = "running"
    /\ Len(RUNS[resp.sid].queue) < Len(emitted[resp.sid])

\* The texts of the parts with one space between two neighbours, built from
\* the last part backwards.
RECURSIVE SpaceJoined(_)
SpaceJoined(ps) ==
    IF ps = <<>> THEN <<>>
    ELSE LET t == IF ps[Len(ps)].kind = "dict"
                  THEN (IF ps[Len(ps)].has_text THEN ps[Len(ps)].text ELSE <<>>)
                  ELSE ps[Len(ps)].val
         IN  IF Len(ps) = 1 THEN t
             ELSE SpaceJoined(SubSeq(ps, 1, Len(ps) - 1)) \o <<" ">> \o t

\* C17: the text stored for any content passed to emit has at most 200
\* characters and no newline; for a string of more than 200 characters
\* without newlines it is the first 200 characters; for a list of parts it
\* is the parts' text fields (or string forms) joined by single spaces,
\* newlines made spaces, cut to 200 characters after the join.
C17_StoredText ==
    resp.op = "emitted"
    => LET c == resp.content
           text == Last(RUNS["s1"].log).text
       IN  /\ Len(text) <= 200
           /\ \A i \in 1..Len(text) : text[i] # "\n"
           /\ (c.kind = "str" /\ Len(c.val) > 200
                               /\ \A i \in 1..Len(c.val) : c.val[i] # "\n")
              => text = SubSeq(c.val, 1, 200)
           /\ c.kind = "list"
              => LET j == SpaceJoined(c.val)
                 IN  /\ Len(text) = Min(200, Len(j))
                     /\ \A i \in 1..Len(text) :
                           text[i] = IF j[i] = "\n" THEN " " ELSE j[i]

\* A list of parts whose joined text is longer than 200 characters was
\* emitted and stored cut to 200.
C17_LongListCut ==
    /\ resp.op = "emitted" /\ resp.content.kind = "list"
    /\ Len(JoinParts(resp.content.val)) > 200
    /\ Len(Last(RUNS["s1"].log).text) = 200

InLog(ev, log) == \E j \in 1..Len(log) : log[j] = ev

\* C19: every event in the channel of a record is an element of that
\* record's log, so any event a long-poll takes from the channel is one the
\* log already contains.
C19_QueueWithinLog ==
    /\ [](\A s \in Registered :
             \A i \in 1..Len(RUNS[s].queue) : InLog(RUNS[s].queue[i], RUNS[s].log))
    /\ [][ \A r \in Readers :
              (/\ readers[r].pc = "waiting"
               /\ resp'.op = "logs" /\ resp'.who = r /\ resp'.path = "event")
              => InLog(Head(RUNS[readers[r].sid].queue), RUNS[readers[r].sid].log) ]_vars

\* A long-poll has just taken the first of two emitted events from the
\* channel; the second is still in it.
C19_TookOneOfTwo ==
    /\ resp.op = "logs" /\ resp.code = 200 /\ resp.path = "event"
    /\ Len(emitted[resp.sid]) = 2
    /\ RUNS[resp.sid].queue = <<emitted[resp.sid][2]>>

====
